---- MODULE Spec2Model ----
(***************************************************************************)
(* A model of compile.py, the build script of km_compile: the change       *)
(* detector (src_hashes / src_hashes_old), the directory stager, the       *)
(* deploy packager, the flag resolver and main()'s orchestration.          *)
(*                                                                         *)
(* A directory is a function from entry names to entries; an entry is a    *)
(* record [kind, data, sub]: a regular file carries its contents in data   *)
(* (a sequence of lines, each line a pair <<tag, number>>), a directory    *)
(* carries its listing in sub.  A path that may be absent is a record      *)
(* [exists, ents].                                                         *)
(***************************************************************************)
EXTENDS Integers, Sequences, FiniteSets, TLC

VARIABLES
    srcTree,   \* the source tree: file number -> contents, 0 for no file
    locked,    \* the files of the source tree a read fails on
    build,     \* paths["build"]
    deploy,    \* paths["deploy"]
    PLATFORM,  \* platform.system()
    TARGETS,   \* app_info.TARGETS
    DEPLOY_FILES, \* app_info.DEPLOY_FILES
    last,      \* the last operation: its arguments, its outcome, its calls
    snapTree,  \* the source tree as it was when src_hashes was last written
    snapBy,    \* who wrote src_hashes last: "detector", "build", "" for no file
    nRuns,     \* runs of the script so far
    nEdits,    \* changes to the source tree so far
    compiled   \* the source tree the toolchain was last called on, if any

vars == <<srcTree, locked, build, deploy, PLATFORM, TARGETS, DEPLOY_FILES,
          last, snapTree, snapBy, nRuns, nEdits, compiled>>

(***************************************************************************)
(* Bounds of the model.                                                    *)
(***************************************************************************)
\* Files under the source tree are numbered 1..MaxFiles, in os.walk order.
MaxFiles == 2

\* A file's contents are one of 1..MaxContent.
MaxContent == 2

\* How many runs of the script, and how many changes to the source tree, a
\* behaviour holds.
MaxRuns == 2

MaxEdits == 1

\* How many removals may fail in one make_and_clear_dir.
MaxFail == 1

\* How many defines a target declares.
MaxDefines == 2

\* Length of hashlib's hexdigest for MD5.
Md5HexLen == 32

(***************************************************************************)
(* Directory trees.                                                        *)
(***************************************************************************)
EmptyDir == [n \in {} |-> n]

File(c) == [kind |-> "file", data |-> c, sub |-> EmptyDir]

Dir(m) == [kind |-> "dir", data |-> <<>>, sub |-> m]

Zip(m) == [kind |-> "zip", data |-> <<>>, sub |-> m]

NoDir == [exists |-> FALSE, ents |-> EmptyDir]

SomeDir(m) == [exists |-> TRUE, ents |-> m]

Put(d, n, e) == [x \in (DOMAIN d) \cup {n} |-> IF x = n THEN e ELSE d[x]]

Del(d, S) == [x \in (DOMAIN d) \ S |-> d[x]]

\* os.path.isfile / os.path.isdir: an archive written by make_archive is a
\* regular file on disk.
isfile(e) == e.kind \in {"file", "zip"}

isdir(e) == e.kind = "dir"

\* shutil.copy2 of one regular file: the copy has the contents of the original.
copy2(e) == [kind |-> e.kind, data |-> e.data, sub |-> e.sub]

\* shutil.copytree(src, dst): dst is created and every entry of src is copied
\* into it, files by copy2 and directories recursively.
RECURSIVE copytree(_)
copytree(m) ==
    [n \in DOMAIN m |->
        IF isdir(m[n]) THEN Dir(copytree(m[n].sub)) ELSE copy2(m[n])]

\* The state of the directory named n inside listing d: absent unless d holds
\* a directory of that name.
SubDirAt(d, n) ==
    IF n \in DOMAIN d /\ isdir(d[n]) THEN SomeDir(d[n].sub) ELSE NoDir

\* remake_dest_and_copy_dir with the rmtree of an existing destination left
\* out: what the destination held before survives the copy.
remake_dest_and_copy_dir_keep(src, dst) ==
    IF ~src.exists
    THEN [ok |-> FALSE, dst |-> SomeDir(dst.ents)]
    ELSE LET names == {x \in DOMAIN src.ents :
                          isfile(src.ents[x]) \/ isdir(src.ents[x])}
         IN  [ok  |-> TRUE,
              dst |-> SomeDir([n \in (DOMAIN dst.ents) \cup names |->
                          IF n \in names
                          THEN IF isfile(src.ents[n]) THEN copy2(src.ents[n])
                               ELSE Dir(copytree(src.ents[n].sub))
                          ELSE dst.ents[n]])]

\* remake_dest_and_copy_dir(src_path, dst_path).  src and dst are the states of
\* the two paths.  An existing dst is removed by rmtree and dst is created
\* anew; then every top-level entry of src that is a file is copied by copy2
\* and every one that is a directory by copytree (an entry that is neither is
\* skipped).  os.listdir raises when src does not exist: the call fails, and
\* leaves the emptied dst behind.
remake_dest_and_copy_dir(src, dst) ==
    IF ~src.exists
    THEN [ok |-> FALSE, dst |-> SomeDir(EmptyDir)]
    ELSE LET names == {x \in DOMAIN src.ents :
                          isfile(src.ents[x]) \/ isdir(src.ents[x])}
         IN  [ok  |-> TRUE,
              dst |-> SomeDir([n \in names |->
                          IF isfile(src.ents[n]) THEN copy2(src.ents[n])
                          ELSE Dir(copytree(src.ents[n].sub))])]

\* paths["deploy"] + "0. Unnamed", with the ".zip" make_archive appends.
DeployZipName == <<"0. Unnamed", ".zip">>

\* The bundle directory of a target: deploy_bundle_name = target.name.
BundleName(target) == <<target, "">>

\* win_deploy with the filter inverted: the entries named by the allow-list
\* are the ones removed.
win_deploy_inverted(target, buildDir, deployDir, deployFiles) ==
    LET staged == remake_dest_and_copy_dir(buildDir,
                      SubDirAt(deployDir.ents, BundleName(target)))
        kept   == Del(staged.dst.ents, DOMAIN staged.dst.ents \cap deployFiles)
        ents   == Put(deployDir.ents, BundleName(target), Dir(kept))
    IN  IF ~staged.ok
        THEN [ok |-> FALSE,
              deploy |-> SomeDir(Put(deployDir.ents, BundleName(target),
                                     Dir(staged.dst.ents)))]
        ELSE [ok |-> TRUE,
              deploy |-> SomeDir(Put(ents, DeployZipName,
                             Zip(Put(EmptyDir, BundleName(target), Dir(kept)))))]

\* win_deploy(target): the build directory is staged into deploy/<target.name>,
\* every top-level entry of the bundle whose name is not in
\* app_info.DEPLOY_FILES is removed (os.remove for a file, rmtree for a
\* directory), and make_archive writes deploy/"0. Unnamed.zip" with the bundle
\* directory as its only root.
win_deploy(target, buildDir, deployDir, deployFiles) ==
    LET staged == remake_dest_and_copy_dir(buildDir,
                      SubDirAt(deployDir.ents, BundleName(target)))
        kept   == Del(staged.dst.ents,
                      {n \in DOMAIN staged.dst.ents :
                          /\ n \notin deployFiles
                          /\ isfile(staged.dst.ents[n]) \/ isdir(staged.dst.ents[n])})
        ents   == Put(deployDir.ents, BundleName(target), Dir(kept))
    IN  IF ~staged.ok
        THEN [ok |-> FALSE,
              deploy |-> SomeDir(Put(deployDir.ents, BundleName(target),
                                     Dir(staged.dst.ents)))]
        ELSE [ok |-> TRUE,
              deploy |-> SomeDir(Put(ents, DeployZipName,
                             Zip(Put(EmptyDir, BundleName(target), Dir(kept)))))]

(***************************************************************************)
(* The change detector.  The source tree is a function from 1..MaxFiles to *)
(* contents (0: no such file); the files a read fails on are a set.        *)
(***************************************************************************)
Paths == 1..MaxFiles

Trees == [Paths -> 0..MaxContent]

\* paths["src-hashes"] and paths["src-hashes-old"], both inside paths["build"].
HashesName == <<"src_hashes", "">>

HashesOldName == <<"src_hashes_old", "">>

\* calc_file_md5: the digest of a file's contents, as one line of the snapshot.
\* Distinct contents have distinct digests.
calc_file_md5(c) == <<"md5", c>>

PathLine(p) == <<"path", p>>

\* compute_src_hashes from file p on: for every file of the walk its path is
\* written, then its digest.  calc_file_md5 raises on a file that cannot be
\* read, after the path was written; the with-block closes the file, which
\* keeps what was written so far.
RECURSIVE WalkFrom(_, _, _)
WalkFrom(p, tree, unread) ==
    IF p > MaxFiles THEN [ok |-> TRUE, lines |-> <<>>]
    ELSE IF tree[p] = 0 THEN WalkFrom(p + 1, tree, unread)
    ELSE IF p \in unread THEN [ok |-> FALSE, lines |-> <<PathLine(p)>>]
    ELSE LET rest == WalkFrom(p + 1, tree, unread)
         IN  [ok |-> rest.ok,
              lines |-> <<PathLine(p), calc_file_md5(tree[p])>> \o rest.lines]

\* compute_src_hashes(): [ok, lines], the lines left in paths["src-hashes"] and
\* whether the walk came to its end.
compute_src_hashes(tree, unread) == WalkFrom(1, tree, unread)

\* os.path.getsize of a snapshot: every line with its newline; the path of
\* file p is p characters long.
RECURSIVE getsize(_)
getsize(lines) ==
    IF lines = <<>> THEN 0
    ELSE (IF Head(lines)[1] = "md5" THEN Md5HexLen ELSE Head(lines)[2]) + 1
         + getsize(Tail(lines))

\* The comparison of did_files_change with the contents left out: two
\* snapshots of the same size count as equal.
SnapshotsDiffer_size_only(cur, old) == getsize(cur) # getsize(old)

\* The comparison of did_files_change, lines 588-589: the sizes differ or the
\* contents differ.
SnapshotsDiffer(cur, old) == getsize(cur) # getsize(old) \/ cur # old

\* did_files_change() on the listing ents of the build directory.  The result
\* is [raised, changed, ents, log]: with no current snapshot it answers
\* "changed" and touches nothing; otherwise a previous snapshot is removed,
\* the current one renamed to it, a new one computed and the two compared.
did_files_change(ents, tree, unread) ==
    IF HashesName \notin DOMAIN ents
    THEN [raised |-> FALSE, changed |-> TRUE, ents |-> ents, log |-> <<>>]
    ELSE LET rotated == Put(Del(ents, {HashesName, HashesOldName}),
                            HashesOldName, ents[HashesName])
             fresh   == compute_src_hashes(tree, unread)
             after   == Put(rotated, HashesName, File(fresh.lines))
             log     == (IF HashesOldName \in DOMAIN ents
                         THEN << <<"remove", "src_hashes_old">> >> ELSE <<>>)
                        \o << <<"rename", "src_hashes">>, <<"hash", "detector">> >>
         IN  IF ~fresh.ok
             THEN [raised |-> TRUE, changed |-> TRUE, ents |-> after, log |-> log]
             ELSE [raised |-> FALSE,
                   changed |-> SnapshotsDiffer(fresh.lines, ents[HashesName].data),
                   ents |-> after, log |-> log]

(***************************************************************************)
(* The project configuration (app_info) and the host.                      *)
(***************************************************************************)
\* The values of the Platform enum; platform.system() may answer another.
PlatformValues == {"Windows", "Linux", "Darwin"}

Hosts == PlatformValues \cup {"Java"}

\* The values of the CompileMode enum, the keys of compile_mode_dict.
CompileModes == {"debug", "internal", "release"}

Modes == {"clean", "run", "bogus"} \cup CompileModes

TargetTypes == {"exe", "lib_dynamic", "lib_static"}

\* app_info.TARGETS: two targets, the second of which may be a library.
TargetConfigs ==
    { << [name |-> "app", type |-> t[1]], [name |-> "tool", type |-> t[2]] >> :
        t \in {<<"exe", "exe">>, <<"exe", "lib_static">>} }

TargetNames == {"app", "tool"}

\* app_info.COPY_DIRS: one directory, data -> build/data, and what it holds.
CopyDirs == << [src |-> "data", dst |-> <<"data", "">>] >>

DataDir ==
    SomeDir(Put(Put(EmptyDir, <<"logo", ".png">>, File(<< <<"data", 1>> >>)),
                <<"fonts", "">>,
                Dir(Put(EmptyDir, <<"mono", ".ttf">>, File(<< <<"data", 2>> >>)))))

LogsName == <<"logs", "">>

\* What the external toolchain leaves in the build directory.
Binary(target) == File(<< <<"exe", 0>> >>)

(***************************************************************************)
(* One run of main().  A run is a record [build, deploy, log, status,      *)
(* reason, det]: the two directories, the calls made so far that touch the *)
(* filesystem or start a process, whether the run is still going, has      *)
(* returned or has raised, and what the change detector did.               *)
(***************************************************************************)
Raise(r, why) == [r EXCEPT !.status = "raised", !.reason = why]

Return(r, why) == [r EXCEPT !.status = "returned", !.reason = why]

Ev(r, e) == [r EXCEPT !.log = Append(@, e)]

NoDet == [called |-> FALSE, hadCurrent |-> FALSE, raised |-> FALSE,
          changed |-> FALSE, curAfter |-> FALSE]

\* make_and_clear_dir(path): the directory is created if need be and every
\* entry that is a file or a directory is removed; a removal that raises (the
\* entries in fail) is printed and the loop goes on.
make_and_clear_dir(d, fail) ==
    SomeDir(Del(d.ents, {n \in DOMAIN d.ents :
                            /\ isfile(d.ents[n]) \/ isdir(d.ents[n])
                            /\ n \notin fail}))

\* clean()
clean(r, env) ==
    LET b == make_and_clear_dir(r.build, env.failBuild)
        d == make_and_clear_dir(r.deploy, env.failDeploy)
    IN  [r EXCEPT !.build = b, !.deploy = d,
                  !.log = @ \o << <<"clear", "build">>, <<"clear", "deploy">> >>]

\* BuildTarget.get_output_name
get_output_name(target, host) ==
    IF target.type = "exe"
    THEN [ok |-> TRUE,
          name |-> <<target.name,
                     CASE host = "Windows" -> "_win32.exe"
                       [] host = "Linux"   -> "_linux"
                       [] OTHER            -> "_macos">>]
    ELSE [ok |-> FALSE, name |-> <<target.name, "">>]

\* linux_compile(target, compile_mode): the flags are put together,
\* get_output_name is asked for the name (and raises for a target that is no
\* executable), and the toolchain is started through os.system; its exit
\* status is not looked at.
linux_compile(r, target, produced) ==
    LET out == get_output_name(target, "Linux")
    IN  IF ~out.ok THEN Raise(r, "type")
        ELSE LET e == Ev(r, <<"toolchain", target.name>>)
             IN  IF target.name \in produced
                 THEN [e EXCEPT !.build = SomeDir(Put(@.ents, out.name, Binary(target)))]
                 ELSE e

IsPdb(n) == n[2] = "_game.pdb"

\* win_compile(target, compile_mode): old .pdb files are removed from the
\* build directory, then get_output_name is asked for the name, the toolchain
\* is started through subprocess.call, and the DLLs of the external libraries
\* are copied (app_info.LIBS_EXTERNAL is empty here).
win_compile(r, target, produced) ==
    LET out   == get_output_name(target, "Windows")
        pdbs  == {n \in DOMAIN r.build.ents : IsPdb(n)}
        swept == IF pdbs = {} THEN r
                 ELSE Ev([r EXCEPT !.build = SomeDir(Del(@.ents, pdbs))],
                         <<"remove", "pdb">>)
    IN  IF ~out.ok THEN Raise(swept, "type")
        ELSE LET e == Ev(swept, <<"toolchain", target.name>>)
             IN  IF target.name \in produced
                 THEN [e EXCEPT !.build = SomeDir(
                          Put(Put(Put(@.ents, out.name, Binary(target)),
                                  <<target.name, "_win32.map">>, File(<< <<"map", 0>> >>)),
                              <<target.name, "_game.pdb">>, File(<< <<"pdb", 0>> >>)))]
                 ELSE e

\* The body of the loop over app_info.TARGETS, lines 645-655.  mac_compile is
\* called with two arguments and takes one: the call raises.
CompileTarget(r, target, args, host, allow, produced) ==
    CASE host = "Windows" ->
            LET c == win_compile(r, target, produced)
            IN  IF c.status # "running" \/ ~args.deploy THEN c
                ELSE LET d == win_deploy(target.name, c.build, c.deploy, allow)
                         e == Ev([c EXCEPT !.deploy = d.deploy],
                                 <<"deploy", target.name>>)
                     IN  IF d.ok THEN e ELSE Raise(e, "io")
      [] host = "Linux" -> linux_compile(r, target, produced)
      [] OTHER -> Raise(r, "call")

RECURSIVE CompileFrom(_, _, _, _, _, _, _)
CompileFrom(r, i, targets, args, host, allow, produced) ==
    IF i > Len(targets) \/ r.status # "running" THEN r
    ELSE CompileFrom(CompileTarget(r, targets[i], args, host, allow, produced),
                     i + 1, targets, args, host, allow, produced)

\* The loop over app_info.COPY_DIRS, lines 637-640.
RECURSIVE StageFrom(_, _)
StageFrom(r, i) ==
    IF i > Len(CopyDirs) \/ r.status # "running" THEN r
    ELSE LET s == remake_dest_and_copy_dir(DataDir,
                      SubDirAt(r.build.ents, CopyDirs[i].dst))
             e == Ev([r EXCEPT !.build = SomeDir(Put(@.ents, CopyDirs[i].dst,
                                                     Dir(s.dst.ents)))],
                     <<"stage", CopyDirs[i].src>>)
         IN  StageFrom(IF s.ok THEN e ELSE Raise(e, "io"), i + 1)

\* The branch of main() for a compile mode, lines 636-655.
Build(r, args, st, env) ==
    LET h  == compute_src_hashes(st.src, st.unread)
        r1 == Ev([r EXCEPT !.build = SomeDir(Put(@.ents, HashesName, File(h.lines)))],
                 <<"hash", "build">>)
        r2 == StageFrom(r1, 1)
        r3 == IF LogsName \in DOMAIN r2.build.ents THEN r2
              ELSE Ev([r2 EXCEPT !.build = SomeDir(Put(@.ents, LogsName, Dir(EmptyDir)))],
                      <<"makedirs", "logs">>)
    IN  IF ~h.ok THEN Raise(r1, "io")
        ELSE IF r2.status # "running" THEN r2
        ELSE CompileFrom(r3, 1, st.targets, args, st.host, st.allow, env.produced)

\* run(target): win_run takes the target; linux_run and mac_run take no
\* argument and are called with one, which raises.
run(r, target, host) ==
    IF host = "Windows" THEN Ev(r, <<"run", target.name>>)
    ELSE Raise(r, "call")

\* The dispatch on args.mode, lines 629-657.
Dispatch(r, args, st, env) ==
    IF args.mode = "clean" THEN clean(r, env)
    ELSE IF args.mode = "run" THEN run(r, st.targets[1], st.host)
    ELSE IF args.mode \in CompileModes THEN Build(r, args, st, env)
    ELSE Raise(r, "mode")

\* Lines 624-627: with --ifchanged the detector is asked, and the run returns
\* when it answers "unchanged".
IfChanged(r, st) ==
    LET d  == did_files_change(r.build.ents, st.src, st.unread)
        r1 == [r EXCEPT !.build = SomeDir(d.ents),
                        !.log = @ \o d.log,
                        !.det = [called |-> TRUE,
                                 hadCurrent |-> HashesName \in DOMAIN r.build.ents,
                                 raised |-> d.raised,
                                 changed |-> d.changed,
                                 curAfter |-> HashesName \in DOMAIN d.ents]]
    IN  IF d.raised THEN Raise(r1, "io")
        ELSE IF ~d.changed THEN Return(r1, "nochange")
        ELSE r1

\* main() with the answer of the detector ignored.
main_always(args, st, env) ==
    LET r0 == [build |-> st.build, deploy |-> st.deploy, log |-> <<>>,
               status |-> "running", reason |-> "", det |-> NoDet]
        r1 == IF r0.build.exists THEN r0
              ELSE Ev([r0 EXCEPT !.build = SomeDir(EmptyDir)], <<"makedirs", "build">>)
        r2 == IF r1.deploy.exists THEN r1
              ELSE Ev([r1 EXCEPT !.deploy = SomeDir(EmptyDir)], <<"makedirs", "deploy">>)
        r3 == IF args.ifchanged
              THEN [IfChanged(r2, st) EXCEPT
                       !.status = IF @ = "returned" THEN "running" ELSE @]
              ELSE r2
        r4 == IF r3.status # "running" THEN r3 ELSE Dispatch(r3, args, st, env)
    IN  IF st.host \notin PlatformValues THEN Raise(r0, "platform")
        ELSE IF r4.status = "running" THEN Return(r4, "") ELSE r4

\* main(): the module is imported (the lookup of platform.system() in the
\* Platform enum raises on a host it does not name), the build and deploy
\* directories are created, --ifchanged is honoured and the mode dispatched.
main(args, st, env) ==
    LET r0 == [build |-> st.build, deploy |-> st.deploy, log |-> <<>>,
               status |-> "running", reason |-> "", det |-> NoDet]
        r1 == IF r0.build.exists THEN r0
              ELSE Ev([r0 EXCEPT !.build = SomeDir(EmptyDir)], <<"makedirs", "build">>)
        r2 == IF r1.deploy.exists THEN r1
              ELSE Ev([r1 EXCEPT !.deploy = SomeDir(EmptyDir)], <<"makedirs", "deploy">>)
        r3 == IF args.ifchanged THEN IfChanged(r2, st) ELSE r2
        r4 == IF r3.status # "running" THEN r3 ELSE Dispatch(r3, args, st, env)
    IN  IF st.host \notin PlatformValues THEN Raise(r0, "platform")
        ELSE IF r4.status = "running" THEN Return(r4, "") ELSE r4

(***************************************************************************)
(* The script at work: runs of main() between changes to the source tree.  *)
(***************************************************************************)
NoTree == [p \in Paths |-> 0]

\* The command lines tried: every mode with and without --ifchanged, and
\* --deploy with the compile mode.
Args ==
    {a \in [mode : {"clean", "run", "bogus", "debug"}, ifchanged : BOOLEAN,
            deploy : BOOLEAN] : a.deploy => a.mode \in CompileModes}

NoArgs == [mode |-> "", ifchanged |-> FALSE, deploy |-> FALSE]

NoEnv == [produced |-> {}, failBuild |-> {}, failDeploy |-> {}]

Few(S) == {F \in SUBSET S : Cardinality(F) <= MaxFail}

\* What the run does not decide: whether the toolchain produces the binaries,
\* and the entries whose removal fails during a clean (the logs directory of
\* the build directory, a bundle or the archive of the deploy directory).
Envs(args) ==
    {e \in [produced   : IF args.mode \in CompileModes THEN {{}, TargetNames}
                         ELSE {{}},
            failBuild  : IF args.mode = "clean" THEN Few({LogsName}) ELSE {{}},
            failDeploy : IF args.mode = "clean"
                         THEN Few({BundleName("app"), DeployZipName}) ELSE {{}}] :
        Cardinality(e.failBuild) + Cardinality(e.failDeploy) <= MaxFail}

Idle(op) ==
    [op |-> op, args |-> NoArgs, env |-> NoEnv, status |-> "", reason |-> "",
     log |-> <<>>, det |-> NoDet, after |-> FALSE,
     prevTree |-> NoTree, prevBy |-> "", prevComplete |-> FALSE]

\* app_info.DEPLOY_FILES of the project.
DeployFiles == {<<"app", "_win32.exe">>, <<"tool", "_win32.exe">>, <<"data", "">>}

\* No call of the toolchain so far, and the tree it was last called on.
NeverCompiled == [done |-> FALSE, tree |-> NoTree]

Compiled(tree) == [done |-> TRUE, tree |-> tree]

\* Whether a run called the toolchain.
Toolchain(log) == \E i \in 1..Len(log) : log[i][1] = "toolchain"

\* The script starts in a fresh checkout (no build directory, no deploy
\* directory) or in one that was built once before (what a run in debug mode
\* leaves behind).
Init ==
    /\ srcTree \in {t \in Trees : \A p \in Paths : t[p] <= 1}
    /\ locked = {}
    /\ PLATFORM \in Hosts
    /\ TARGETS \in TargetConfigs
    /\ DEPLOY_FILES = DeployFiles
    /\ \E built \in BOOLEAN :
         LET st == [src |-> srcTree, unread |-> {}, build |-> NoDir,
                    deploy |-> NoDir, host |-> PLATFORM, targets |-> TARGETS,
                    allow |-> DEPLOY_FILES]
             r  == main([mode |-> "debug", ifchanged |-> FALSE, deploy |-> FALSE],
                        st, [NoEnv EXCEPT !.produced = TargetNames])
         IN  /\ build = IF built THEN r.build ELSE NoDir
             /\ deploy = IF built THEN r.deploy ELSE NoDir
             /\ snapTree = IF built /\ HashesName \in DOMAIN r.build.ents
                           THEN srcTree ELSE NoTree
             /\ snapBy = IF built /\ HashesName \in DOMAIN r.build.ents
                         THEN "build" ELSE ""
             /\ compiled = IF built /\ Toolchain(r.log)
                          THEN Compiled(srcTree) ELSE NeverCompiled
    /\ last = Idle("init")
    /\ nRuns = 0
    /\ nEdits = 0

\* One run of the script.
RunMain ==
    /\ nRuns < MaxRuns
    /\ \E args \in Args : \E env \in Envs(args) :
         LET st == [src |-> srcTree, unread |-> locked, build |-> build,
                    deploy |-> deploy, host |-> PLATFORM, targets |-> TARGETS,
                    allow |-> DEPLOY_FILES]
         IN  \E r \in {main(args, st, env)} :
         LET hashes == {i \in 1..Len(r.log) : r.log[i][1] = "hash"}
             wrote  == hashes # {}
             had    == HashesName \in DOMAIN build.ents
         IN  /\ build' = r.build
             /\ deploy' = r.deploy
             /\ snapTree' = IF HashesName \notin DOMAIN r.build.ents THEN NoTree
                            ELSE IF wrote THEN srcTree ELSE snapTree
             /\ snapBy' = IF HashesName \notin DOMAIN r.build.ents THEN ""
                          ELSE IF wrote
                          THEN r.log[CHOOSE i \in hashes : \A j \in hashes : j <= i][2]
                          ELSE snapBy
             /\ compiled' = IF Toolchain(r.log) THEN Compiled(srcTree) ELSE compiled
             /\ last' = [op |-> "main", args |-> args, env |-> env,
                         status |-> r.status, reason |-> r.reason,
                         log |-> r.log, det |-> r.det,
                         after |-> last.op = "main" /\ last.det.called
                                   /\ ~last.det.raised,
                         prevTree |-> snapTree, prevBy |-> snapBy,
                         prevComplete |->
                            /\ had
                            /\ build.ents[HashesName].data
                                 = compute_src_hashes(snapTree, {}).lines]
    /\ nRuns' = nRuns + 1
    /\ UNCHANGED <<srcTree, locked, PLATFORM, TARGETS, DEPLOY_FILES, nEdits>>

\* A file of the source tree is modified, added or removed.
EditSrc ==
    /\ nEdits < MaxEdits
    /\ \E p \in Paths : \E c \in 0..MaxContent :
         /\ c # srcTree[p]
         /\ srcTree' = [srcTree EXCEPT ![p] = c]
         /\ locked' = IF c = 0 THEN locked \ {p} ELSE locked
    /\ last' = Idle("edit")
    /\ nEdits' = nEdits + 1
    /\ UNCHANGED <<build, deploy, PLATFORM, TARGETS, DEPLOY_FILES, snapTree, snapBy, compiled, nRuns>>

\* A file of the source tree becomes unreadable, or readable again.
Chmod ==
    /\ nEdits < MaxEdits
    /\ \E p \in Paths :
         /\ srcTree[p] # 0
         /\ locked' = IF p \in locked THEN locked \ {p} ELSE locked \cup {p}
    /\ last' = Idle("chmod")
    /\ nEdits' = nEdits + 1
    /\ UNCHANGED <<srcTree, build, deploy, PLATFORM, TARGETS, DEPLOY_FILES, snapTree, snapBy, compiled, nRuns>>

Next == RunMain \/ EditSrc \/ Chmod

Spec == Init /\ [][Next]_vars

(***************************************************************************)
(* Properties of the change detector and of main().                        *)
(***************************************************************************)
LastMain == last.op = "main"

\* The detector was asked in the last run and answered.
Answered == LastMain /\ last.det.called /\ ~last.det.raised

Kinds(log) == {log[i][1] : i \in 1..Len(log)}

\* The calls of kind k in a log, in order.
RECURSIVE Calls(_, _)
Calls(log, k) ==
    IF log = <<>> THEN <<>>
    ELSE (IF Head(log)[1] = k THEN <<Head(log)[2]>> ELSE <<>>) \o Calls(Tail(log), k)

\* The calls that change the filesystem.
MutatingKinds == {"makedirs", "remove", "rename", "hash", "stage", "clear", "deploy"}

\* The lines of a snapshot file that lists every file of tree t.
CompleteListing(t) == WalkFrom(1, t, {}).lines

Differing(t, u) == {p \in Paths : t[p] # u[p]}

\* C1: asked while there is no current snapshot, the detector answers
\* "changed" and a current snapshot holding one record per file of the source
\* tree exists when it returns.
C1_FirstRunWritesSnapshot ==
    (LastMain /\ last.det.called /\ ~last.det.hadCurrent)
        => /\ ~last.det.raised
           /\ last.det.changed
           /\ last.det.curAfter

\* C2: when the detector is asked in two runs in a row and the source tree is
\* not touched in between, it answers "unchanged" the second time.
C2_SecondCallUnchanged ==
    (Answered /\ last.after) => ~last.det.changed

\* C3: when the detector recomputes the snapshot and the source tree differs
\* (in one file or more: modified, added or removed) from the tree the rotated
\* snapshot listed, it answers "changed"; and it answers "unchanged" only when
\* the new src_hashes equals src_hashes_old line for line.
C3_EditDetected ==
    (Answered /\ last.det.hadCurrent)
        => /\ (last.prevComplete /\ Differing(last.prevTree, srcTree) # {})
                => last.det.changed
           /\ ~last.det.changed
                => /\ HashesName \in DOMAIN build.ents
                   /\ HashesOldName \in DOMAIN build.ents
                   /\ build.ents[HashesName].data = build.ents[HashesOldName].data

\* C3, its case: the rotated snapshot was written by the detector, one file
\* of the source tree has changed since, and the detector answers "changed".
C3_Witness ==
    /\ Answered /\ last.det.hadCurrent
    /\ last.prevComplete /\ last.prevBy = "detector"
    /\ Cardinality(Differing(last.prevTree, srcTree)) = 1
    /\ last.det.changed

\* C4: src_hashes is absent or lists every file of the source tree as it was
\* when the file was written, each path followed by its digest.
C4_SnapshotComplete ==
    HashesName \in DOMAIN build.ents
        => build.ents[HashesName].data = CompleteListing(snapTree)

\* C7: a run that ends in a configuration error (unknown mode, target that is
\* no executable, unsupported platform) has changed nothing on disk.
C7_ConfigErrorBeforeMutation ==
    (LastMain /\ last.status = "raised" /\ last.reason \in {"mode", "type", "platform"})
        => Kinds(last.log) \cap MutatingKinds = {}

\* The detector answered "unchanged" in the last run.
Skipped == Answered /\ ~last.det.changed

\* C9: in a compile mode, a run in which the detector answers "unchanged"
\* returns without staging, toolchain or deploy; a run that it does not stop
\* (no --ifchanged, or the answer "changed") and that returns has hashed the
\* sources, staged every copy directory and started the toolchain once for
\* every target, in the order of app_info.TARGETS.
C9_IfChangedGate ==
    (LastMain /\ last.args.mode \in CompileModes)
        => /\ Skipped => /\ last.status = "returned"
                         /\ last.args.ifchanged
                         /\ Kinds(last.log) \cap {"stage", "toolchain", "deploy"} = {}
                         /\ <<"hash", "build">> \notin {last.log[i] : i \in 1..Len(last.log)}
           /\ (~Skipped /\ last.status = "returned")
                => /\ Calls(last.log, "toolchain")
                        = [i \in 1..Len(TARGETS) |-> TARGETS[i].name]
                   /\ Calls(last.log, "stage")
                        = [i \in 1..Len(CopyDirs) |-> CopyDirs[i].src]
                   /\ <<"hash", "build">> \in {last.log[i] : i \in 1..Len(last.log)}
           /\ (~last.args.ifchanged /\ PLATFORM \in PlatformValues)
                => <<"hash", "build">> \in {last.log[i] : i \in 1..Len(last.log)}

\* C9, its case: a run in a compile mode with --ifchanged that the detector
\* stops.
C9_Witness ==
    /\ LastMain /\ last.args.mode \in CompileModes /\ last.args.ifchanged
    /\ Skipped /\ last.status = "returned"

\* C9, its other case: a run with --ifchanged that the detector lets through
\* and that builds every target.
C9_WitnessBuilt ==
    /\ LastMain /\ last.args.mode \in CompileModes /\ last.args.ifchanged
    /\ Answered /\ last.det.changed /\ last.status = "returned"
    /\ Len(Calls(last.log, "toolchain")) = Len(TARGETS)

\* C10: when a run in mode clean has returned, the build and the deploy
\* directory exist and hold nothing but the entries whose removal failed.
C10_CleanWipes ==
    (LastMain /\ last.args.mode = "clean" /\ last.status = "returned")
        => /\ build.exists /\ deploy.exists
           /\ DOMAIN build.ents \subseteq last.env.failBuild
           /\ DOMAIN deploy.ents \subseteq last.env.failDeploy

\* Where the calls of the kinds K stand in a log.
At(log, K) == {i \in 1..Len(log) : log[i][1] \in K}

\* The names of the first n targets, in declaration order.
Declared(n) == [i \in 1..n |-> TARGETS[i].name]

\* The events of a run in a compile mode are in order when: the snapshot is
\* written and every CopyDir staged before the first call of the toolchain;
\* the toolchain is called for the targets one after the other in declaration
\* order; and no call of the kinds in staging stands after the first and
\* before the last call of the toolchain.
InOrder(log, staging) ==
    LET tc == At(log, {"toolchain"})
    IN  /\ \A t \in tc :
            /\ \E h \in At(log, {"hash"}) : h < t /\ log[h][2] = "build"
            /\ \A c \in 1..Len(CopyDirs) :
                  \E g \in At(log, {"stage"}) : g < t /\ log[g][2] = CopyDirs[c].src
        /\ Len(Calls(log, "toolchain")) <= Len(TARGETS)
        /\ Calls(log, "toolchain") = Declared(Len(Calls(log, "toolchain")))
        /\ \A i \in At(log, staging) :
              ~(\E a, b \in tc : a < i /\ i < b)

\* C11: in a run in a compile mode the snapshot is written and every CopyDir
\* staged before the toolchain is called for any target, the targets are
\* compiled one at a time in declaration order, and no snapshot is computed
\* and nothing staged (a CopyDir into the build directory or the build
\* directory into a deploy bundle) between two calls of the toolchain.
C11_StrictOrder ==
    (LastMain /\ last.args.mode \in CompileModes)
        => InOrder(last.log, {"hash", "stage", "deploy"})

\* C11 without the deploy bundles: the snapshot and the CopyDirs come before
\* every call of the toolchain, and the targets in declaration order.
C11_SnapshotAndCopyDirsFirst ==
    (LastMain /\ last.args.mode \in CompileModes)
        => /\ InOrder(last.log, {"hash", "stage"})
           /\ \A i \in At(last.log, {"hash", "stage"}) :
                 \A t \in At(last.log, {"toolchain"}) : i < t

\* C11, its case: a run with --ifchanged that calls the toolchain for every
\* target.
C11_Witness ==
    /\ LastMain /\ last.args.mode \in CompileModes /\ last.args.ifchanged
    /\ Len(TARGETS) >= 2
    /\ Calls(last.log, "toolchain") = Declared(Len(TARGETS))

\* The last run was asked to build with --ifchanged and skipped the build.
BuildSkipped ==
    /\ LastMain /\ last.args.mode \in CompileModes /\ last.args.ifchanged
    /\ Skipped /\ last.status = "returned" /\ ~Toolchain(last.log)

\* C12: whenever a run in a compile mode with --ifchanged skips the build,
\* the source tree is the one the toolchain was last called on: no change
\* made to the sources since is hidden by a snapshot written in between.
C12_NoMissedRebuild ==
    BuildSkipped => (compiled.done /\ compiled.tree = srcTree)

\* C12, the hidden edit: the sources were compiled, have changed since, a
\* run that is no build has rewritten the snapshot, and the build is skipped.
C12_HiddenEdit ==
    /\ BuildSkipped
    /\ compiled.done /\ compiled.tree # srcTree
    /\ last.prevBy = "detector"
    /\ PLATFORM = "Windows"

(***************************************************************************)
(* The stager and the deploy packager on their own: the build directory is *)
(* any small tree, the allow-list any set of its names, and the bundle     *)
(* directory deploy/app is staged, scribbled into and packaged.            *)
(***************************************************************************)
StageNames == {<<"app", "_win32.exe">>, <<"data", "">>, <<"notes", ".txt">>}

\* What an entry of the build directory may be: a file with one of the
\* contents, or a directory holding one file.
StageEntries ==
    {File(<< <<"data", c>> >>) : c \in 1..MaxContent}
        \cup {Dir(Put(EmptyDir, <<"inner", "">>, File(<< <<"data", 1>> >>)))}

StageTrees == UNION {[N -> StageEntries] : N \in SUBSET StageNames}

\* The state of the bundle directory deploy/app.
Bundle == SubDirAt(deploy.ents, BundleName("app"))

StageIdle(op) ==
    [op |-> op, ok |-> FALSE, srcAt |-> NoDir, prior |-> NoDir, again |-> FALSE]

StageInit ==
    /\ build \in {NoDir} \cup {SomeDir(m) : m \in StageTrees}
    /\ deploy = NoDir
    /\ DEPLOY_FILES \in SUBSET StageNames
    /\ last = StageIdle("init")
    /\ srcTree = NoTree
    /\ locked = {}
    /\ PLATFORM = "Windows"
    /\ TARGETS \in {t \in TargetConfigs : \A i \in 1..Len(t) : t[i].type = "exe"}
    /\ snapTree = NoTree
    /\ snapBy = ""
    /\ nRuns = 0
    /\ nEdits = 0
    /\ compiled = NeverCompiled

\* remake_dest_and_copy_dir(paths["build"], deploy/app) is called.
StageCopy ==
    /\ nRuns < MaxRuns
    /\ \E s \in {remake_dest_and_copy_dir(build, Bundle)} :
         /\ deploy' = SomeDir(Put(deploy.ents, BundleName("app"), Dir(s.dst.ents)))
         /\ last' = [op |-> "copy", ok |-> s.ok, srcAt |-> build, prior |-> Bundle,
                     again |-> last.op = "copy" /\ last.ok]
    /\ nRuns' = nRuns + 1
    /\ UNCHANGED <<srcTree, locked, build, PLATFORM, TARGETS, DEPLOY_FILES,
                   snapTree, snapBy, compiled, nEdits>>

\* win_deploy(target) is called for the target app.
StageDeploy ==
    /\ nRuns < MaxRuns
    /\ \E d \in {win_deploy("app", build, deploy, DEPLOY_FILES)} :
         /\ deploy' = d.deploy
         /\ last' = [op |-> "deploy", ok |-> d.ok, srcAt |-> build, prior |-> Bundle,
                     again |-> FALSE]
    /\ nRuns' = nRuns + 1
    /\ UNCHANGED <<srcTree, locked, build, PLATFORM, TARGETS, DEPLOY_FILES,
                   snapTree, snapBy, compiled, nEdits>>

\* Something else leaves the bundle directory empty, or with an entry of its
\* own in it.
StageScribble ==
    /\ nEdits < MaxEdits
    /\ \E junk \in {EmptyDir,
                    Put(Bundle.ents, <<"junk", "">>, File(<< <<"data", 1>> >>)),
                    Put(Bundle.ents, <<"data", "">>, Dir(EmptyDir))} :
         deploy' = SomeDir(Put(deploy.ents, BundleName("app"), Dir(junk)))
    /\ last' = StageIdle("scribble")
    /\ nEdits' = nEdits + 1
    /\ UNCHANGED <<srcTree, locked, build, PLATFORM, TARGETS, DEPLOY_FILES,
                   snapTree, snapBy, compiled, nRuns>>

\* An entry of the build directory is removed or replaced.
StageEdit ==
    /\ nEdits < MaxEdits
    /\ build.exists
    /\ \E n \in StageNames :
         \/ /\ n \in DOMAIN build.ents
            /\ build' = SomeDir(Del(build.ents, {n}))
         \/ \E e \in {File(<< <<"data", MaxContent>> >>)} :
              /\ (IF n \in DOMAIN build.ents THEN build.ents[n] # e ELSE TRUE)
              /\ build' = SomeDir(Put(build.ents, n, e))
    /\ last' = StageIdle("edit")
    /\ nEdits' = nEdits + 1
    /\ UNCHANGED <<srcTree, locked, deploy, PLATFORM, TARGETS, DEPLOY_FILES,
                   snapTree, snapBy, compiled, nRuns>>

StageNext == StageCopy \/ StageDeploy \/ StageScribble \/ StageEdit

SpecStage == StageInit /\ [][StageNext]_vars

\* C5: after a successful remake_dest_and_copy_dir(src, dst), dst holds the
\* files and directories src held at the call, with their contents, and
\* nothing else, whatever dst was before; a second call in a row with src
\* unchanged leaves dst as the first one did.
C5_RemakeCopiesExactly ==
    (last.op = "copy" /\ last.ok)
        => /\ Bundle.exists
           /\ DOMAIN Bundle.ents = DOMAIN last.srcAt.ents
           /\ \A n \in DOMAIN Bundle.ents : Bundle.ents[n] = last.srcAt.ents[n]
           /\ (last.again /\ build = last.srcAt) => Bundle = last.prior

\* C5, its case: the destination held an entry the source does not have, and
\* the call succeeded.
C5_Witness ==
    /\ last.op = "copy" /\ last.ok
    /\ last.prior.exists
    /\ DOMAIN last.prior.ents \ DOMAIN last.srcAt.ents # {}
    /\ DOMAIN last.srcAt.ents # {}

\* C5, its second case: two successful calls in a row.
C5_WitnessTwice ==
    /\ last.op = "copy" /\ last.ok /\ last.again /\ build = last.srcAt

\* What the archive deploy/"0. Unnamed.zip" holds under its root directory.
Archived ==
    deploy.ents[DeployZipName].sub[BundleName("app")].sub

\* C6: after win_deploy the top-level entries of the bundle directory, and of
\* the archive made from it, are the entries of the build directory whose
\* names are in app_info.DEPLOY_FILES, and no others.
C6_DeployKeepsAllowList ==
    (last.op = "deploy" /\ last.ok)
        => /\ DeployZipName \in DOMAIN deploy.ents
           /\ DOMAIN deploy.ents[DeployZipName].sub = {BundleName("app")}
           /\ DOMAIN Archived = DEPLOY_FILES \cap DOMAIN last.srcAt.ents
           /\ DOMAIN Bundle.ents = DEPLOY_FILES \cap DOMAIN last.srcAt.ents
           /\ \A n \in DOMAIN Archived : Archived[n] = last.srcAt.ents[n]

\* C6, its case: the build directory holds an entry the allow-list names and
\* one it does not name.
C6_Witness ==
    /\ last.op = "deploy" /\ last.ok
    /\ DOMAIN last.srcAt.ents \cap DEPLOY_FILES # {}
    /\ DOMAIN last.srcAt.ents \ DEPLOY_FILES # {}
    /\ DEPLOY_FILES \ DOMAIN last.srcAt.ents # {}

(***************************************************************************)
(* The flag resolver.  A string of flags is the sequence of its tokens,    *)
(* the parts between single spaces; the empty string is one empty token.   *)
(* A token is the tuple of the parts it is concatenated from.              *)
(***************************************************************************)
EmptyToken == <<"", "", "", "">>

EmptyStr == <<EmptyToken>>

Raw(flag) == << <<flag, "", "", "">> >>

\* " ".join(strs)
RECURSIVE Join(_)
Join(strs) ==
    IF strs = <<>> THEN EmptyStr
    ELSE IF Len(strs) = 1 THEN strs[1]
    ELSE strs[1] \o Join(Tail(strs))

\* Define.to_compiler_flag: "-D" + name, and "=" + value when there is a value.
to_compiler_flag(d) ==
    IF d.hasValue THEN << <<"-D", d.name, "=", d.value>> >>
    ELSE << <<"-D", d.name, "", "">> >>

Define(name, value) == [name |-> name, hasValue |-> TRUE, value |-> value]

DefineFlag(name) == [name |-> name, hasValue |-> FALSE, value |-> ""]

\* PlatformTargetOptions.get_compiler_flags with the raw flags put before the
\* defines.
PTO_get_compiler_flags_swapped(o) ==
    Join([i \in 1..Len(o.compiler_flags) |-> Raw(o.compiler_flags[i])]
         \o [i \in 1..Len(o.defines) |-> to_compiler_flag(o.defines[i])])

\* PlatformTargetOptions.get_compiler_flags
PTO_get_compiler_flags(o) ==
    Join([i \in 1..Len(o.defines) |-> to_compiler_flag(o.defines[i])]
         \o [i \in 1..Len(o.compiler_flags) |-> Raw(o.compiler_flags[i])])

\* PlatformTargetOptions.get_linker_flags
PTO_get_linker_flags(o) ==
    Join([i \in 1..Len(o.linker_flags) |-> Raw(o.linker_flags[i])])

\* BuildTarget.get_compiler_flags
get_compiler_flags(target, host) ==
    LET own == Join([i \in 1..Len(target.defines) |->
                        to_compiler_flag(target.defines[i])])
    IN  IF host \in DOMAIN target.platform_options
        THEN Join(<<own, PTO_get_compiler_flags(target.platform_options[host])>>)
        ELSE own

\* BuildTarget.get_linker_flags
get_linker_flags(target, host) ==
    IF host \in DOMAIN target.platform_options
    THEN Join(<<EmptyStr, PTO_get_linker_flags(target.platform_options[host])>>)
    ELSE EmptyStr

\* get_common_defines(compile_mode)
get_common_defines(host, mode) ==
    (CASE host = "Windows" -> <<Define("GAME_WIN32", "1"),
                                DefineFlag("_CRT_SECURE_NO_WARNINGS")>>
       [] host = "Linux"   -> <<Define("GAME_LINUX", "1")>>
       [] host = "Darwin"  -> <<Define("GAME_MACOS", "1")>>
       [] OTHER            -> <<>>)
    \o
    (CASE mode = "debug"    -> <<Define("GAME_INTERNAL", "1"), Define("GAME_SLOW", "1")>>
       [] mode = "internal" -> <<Define("GAME_INTERNAL", "1"), Define("GAME_SLOW", "0")>>
       [] mode = "release"  -> <<Define("GAME_INTERNAL", "0"), Define("GAME_SLOW", "0")>>
       [] OTHER             -> <<>>)

CommonFlags(host, mode) ==
    LET c == get_common_defines(host, mode)
    IN  [i \in 1..Len(c) |-> to_compiler_flag(c[i])]

\* The compiler and linker flags linux_compile puts together, lines 371-444
\* (app_info.LIBS_EXTERNAL is empty: no include directory of a library).
linux_compile_flags(target, mode) ==
    LET f1 == Join(<<EmptyStr>> \o CommonFlags("Linux", mode))
        f2 == Join(<<f1, Raw("-std=c++17"), Raw("-ggdb3"), Raw("-fno-rtti"),
                     Raw("-fno-exceptions")>>)
        f3 == IF mode = "debug" THEN Join(<<f2, Raw("-O0")>>)
              ELSE IF mode \in {"internal", "release"} THEN Join(<<f2, Raw("-O3")>>)
              ELSE f2
        f4 == Join(<<f3, Raw("-Werror"), Raw("-Wall"), Raw("-Wno-char-subscripts")>>)
        f5 == IF mode = "debug" THEN Join(<<f4, Raw("-Wno-unused-function")>>) ELSE f4
        f6 == Join(<<f5, Raw("-I'src'"), Raw("-I'libs/internal'")>>)
        l1 == Join(<<Raw("-fvisibility=hidden")>>)
        l2 == Join(<<l1, Raw("-lm"), Raw("-lpthread")>>)
    IN  [compiler |-> Join(<<f6, get_compiler_flags(target, "Linux")>>),
         linker   |-> Join(<<l2, get_linker_flags(target, "Linux")>>)]

\* The compiler and linker flags win_compile puts together, lines 202-310.
win_compile_flags(target, mode) ==
    LET f1 == Join(<<EmptyStr>> \o CommonFlags("Windows", mode))
        f2 == Join(<<f1, Raw("-nologo"), Raw("-Gm-"), Raw("-GR-"), Raw("-EHa-"),
                     Raw("-EHsc"), Raw("-std:c++latest"), Raw("-Z7")>>)
        f3 == IF mode = "debug"
              THEN Join(<<f2, Raw("-MTd"), Raw("-Od"), Raw("-Oi")>>)
              ELSE IF mode \in {"internal", "release"}
              THEN Join(<<f2, Raw("-MT"), Raw("-Ox")>>)
              ELSE f2
        f4 == Join(<<f3, Raw("-WX"), Raw("-W4")>>)
        f5 == IF mode = "debug"
              THEN Join(<<f4, Raw("-wd4100"), Raw("-wd4189"), Raw("-wd4505"),
                          Raw("-wd4702")>>)
              ELSE f4
        f6 == Join(<<f5, Raw("-I\"src\""), Raw("-I\"libs/internal\"")>>)
        l1 == Join(<<Raw("-incremental:no"), Raw("-opt:ref")>>)
        l2 == Join(<<l1, Raw("kernel32.lib")>>)
    IN  [compiler |-> Join(<<f6, get_compiler_flags(target, "Windows")>>),
         linker   |-> Join(<<l2, get_linker_flags(target, "Windows")>>)]

\* What the loop of main() resolves for one target: the flags of the
\* platform's compile function; mac_compile raises before any flag.
ResolveFlags(target, host, mode) ==
    CASE host = "Windows" ->
            [ok |-> TRUE] @@ win_compile_flags(target, mode)
      [] host = "Linux" ->
            [ok |-> TRUE] @@ linux_compile_flags(target, mode)
      [] OTHER -> [ok |-> FALSE, compiler |-> EmptyStr, linker |-> EmptyStr]

(***************************************************************************)
(* The flag resolver at work: one target, declared in any of a few ways,   *)
(* is resolved in every compile mode.                                      *)
(***************************************************************************)
\* The sequences over S without repetition, of at most n elements.
RECURSIVE Lists(_, _)
Lists(S, n) ==
    IF n = 0 THEN {<<>>}
    ELSE Lists(S, n - 1)
         \cup {Append(l, x) : l \in Lists(S, n - 1), x \in S}

Distinct(l) == \A i, j \in 1..Len(l) : i # j => l[i] # l[j]

TargetDefineLists == Lists({Define("APP_VERSION", "3"), DefineFlag("APP_DEMO")}, MaxDefines)

OptionSets ==
    [defines        : {l \in Lists({Define("USE_GL", "1"), DefineFlag("UNICODE")}, 2) :
                          Distinct(l)},
     compiler_flags : {l \in Lists({"-fno-strict-aliasing", "-msse4"}, 2) : Distinct(l)},
     linker_flags   : {l \in Lists({"-lGL", "-lX11"}, 2) : Distinct(l)}]

\* The other platform a target may have options for.
Other(h) == IF h = "Linux" THEN "Windows" ELSE "Linux"

FlagsIdle == [op |-> "init", mode |-> "", ok |-> FALSE,
              compiler |-> EmptyStr, linker |-> EmptyStr]

FlagsInit ==
    /\ PLATFORM \in PlatformValues
    /\ \E defs \in TargetDefineLists :
         \E opts \in {EmptyDir}
                     \cup {[h \in {PLATFORM} |-> o] : o \in OptionSets}
                     \cup {[h \in {Other(PLATFORM)} |-> o] : o \in OptionSets} :
            TARGETS = << [name |-> "app", type |-> "exe", defines |-> defs,
                          platform_options |-> opts] >>
    /\ last = FlagsIdle
    /\ srcTree = NoTree
    /\ locked = {}
    /\ build = NoDir
    /\ deploy = NoDir
    /\ DEPLOY_FILES = {}
    /\ snapTree = NoTree
    /\ snapBy = ""
    /\ nRuns = 0
    /\ nEdits = 0
    /\ compiled = NeverCompiled

\* The flags of the target are resolved for a compile mode.
FlagsResolve ==
    /\ \E mode \in CompileModes :
         \E f \in {ResolveFlags(TARGETS[1], PLATFORM, mode)} :
            last' = [op |-> "resolve", mode |-> mode, ok |-> f.ok,
                     compiler |-> f.compiler, linker |-> f.linker]
    /\ UNCHANGED <<srcTree, locked, build, deploy, PLATFORM, TARGETS,
                   DEPLOY_FILES, snapTree, snapBy, compiled, nRuns, nEdits>>

\* The target's own flags are asked for, as every compile function does.
FlagsTarget ==
    /\ last' = [op |-> "target", mode |-> "", ok |-> TRUE,
                compiler |-> get_compiler_flags(TARGETS[1], PLATFORM),
                linker |-> get_linker_flags(TARGETS[1], PLATFORM)]
    /\ UNCHANGED <<srcTree, locked, build, deploy, PLATFORM, TARGETS,
                   DEPLOY_FILES, snapTree, snapBy, compiled, nRuns, nEdits>>

FlagsNext == FlagsResolve \/ FlagsTarget

SpecFlags == FlagsInit /\ [][FlagsNext]_vars

\* A string of flags without its empty tokens.
RECURSIVE Tokens(_)
Tokens(str) ==
    IF str = <<>> THEN <<>>
    ELSE (IF Head(str) = EmptyToken THEN <<>> ELSE <<Head(str)>>) \o Tokens(Tail(str))

StartsWith(s, pre) == Len(pre) <= Len(s) /\ SubSeq(s, 1, Len(pre)) = pre

EndsWith(s, suf) ==
    Len(suf) <= Len(s) /\ SubSeq(s, Len(s) - Len(suf) + 1, Len(s)) = suf

\* The option set of the target for the platform, the empty one if it has none.
OptionsHere ==
    IF PLATFORM \in DOMAIN TARGETS[1].platform_options
    THEN TARGETS[1].platform_options[PLATFORM]
    ELSE [defines |-> <<>>, compiler_flags |-> <<>>, linker_flags |-> <<>>]

Rendered(defs) == [i \in 1..Len(defs) |-> to_compiler_flag(defs[i])[1]]

RawTokens(flags) == [i \in 1..Len(flags) |-> Raw(flags[i])[1]]

\* The same target with no define and no platform options.
Bare == [TARGETS[1] EXCEPT !.defines = <<>>, !.platform_options = EmptyDir]

C8_WitnessNoOptions ==
    /\ last.op = "resolve" /\ last.ok
    /\ PLATFORM \notin DOMAIN TARGETS[1].platform_options
    /\ DOMAIN TARGETS[1].platform_options # {}

\* C8 on macOS: the target's own flags with an option set for the platform.
C8_WitnessMac ==
    /\ last.op = "target" /\ PLATFORM = "Darwin"
    /\ PLATFORM \in DOMAIN TARGETS[1].platform_options
    /\ Len(OptionsHere.defines) = 2

====
